---- MODULE Spec2Model ----
(***************************************************************************)
(* LocaMate: the itinerary aggregate (models/Itinerary.js), the itinerary  *)
(* controller, and the Foursquare places gateway with its Place cache.     *)
(*                                                                         *)
(* Every action is one request handler (or one environment step) run to    *)
(* completion; `last` is the outcome the handler reported to its caller.   *)
(* Absent optional numbers (a missing estimatedDuration or rating in a     *)
(* request body, an unset Date) are 0: the code itself tests them with     *)
(* `x || default` and `if (x)`, and the clock starts at 1.                 *)
(*                                                                         *)
(* Of a places entry the model keeps placeId, name, category, order,       *)
(* estimatedDuration, isVisited and rating; notes are display text that no *)
(* handler reads back. Of a user document it keeps the stored location,    *)
(* which no modelled handler writes. Each specification below exercises    *)
(* one part of the surface, so that the parts' states do not multiply.     *)
(***************************************************************************)
EXTENDS Integers, Sequences, FiniteSets, TLC

VARIABLES
    now,          \* Date.now(), in clock ticks
    session,      \* req.user._id: the user the auth middleware let in
    itineraries,  \* the Itinerary collection: id -> document, or NoItin
    likeToggles,  \* history: per itinerary and user, parity of toggleLike calls
    placeCache,   \* the Place collection: foursquareId -> document, or NoPlace
    provider,     \* the external provider's current rating of each place
    loaded,       \* the document each request in flight has read and not yet saved
    users,        \* the User collection: id -> whether it exists and is active
    favorites,    \* the client's PlacesContext: state.favorites
    last          \* the outcome of the last handler

vars == <<now, session, itineraries, likeToggles, placeCache, provider, loaded, users,
          favorites, last>>

-----------------------------------------------------------------------------
(* Bounds of the model *)

MaxTime == 3
MaxPlaces == 3
MaxShares == 1
MaxItins == 1

Users == {"u1", "u2"}
ItinIds == {"i1", "i2"}

\* ids of the provider's places, and the ids generation gives unresolved stubs
FsqIds == {"f1", "f2"}
Placeholder(index) == <<"placeholder-0", "placeholder-1", "placeholder-2">>[index + 1]
PlaceIds == FsqIds \cup {Placeholder(0)}

(* Program constants *)

DefaultDuration == 60
Unset == 0

NoItin == [exists |-> FALSE]

\* the requests that may be in flight at once, and the state of one that is not
Requests == {"r1", "r2"}
Idle == [busy |-> FALSE]

\* a user as register leaves it (isActive defaults to true), and no user
ActiveUser == [exists |-> TRUE, isActive |-> TRUE]
NoUser == [exists |-> FALSE, isActive |-> FALSE]

-----------------------------------------------------------------------------
(* Sequence helpers (Array.prototype.filter / reduce / every / find) *)

RECURSIVE SumDurations(_)
SumDurations(ps) ==
    IF ps = <<>> THEN 0
    ELSE Head(ps).estimatedDuration + SumDurations(Tail(ps))

RECURSIVE MaxOrder(_)
MaxOrder(ps) ==
    IF ps = <<>> THEN 0
    ELSE LET m == MaxOrder(Tail(ps))
         IN  IF Head(ps).order > m THEN Head(ps).order ELSE m

RECURSIVE FilterOutPlace(_, _)
FilterOutPlace(ps, placeId) ==
    IF ps = <<>> THEN <<>>
    ELSE IF Head(ps).placeId # placeId
         THEN <<Head(ps)>> \o FilterOutPlace(Tail(ps), placeId)
         ELSE FilterOutPlace(Tail(ps), placeId)

\* mutant: the survivors keep the order indices they had
RenumberSkipped(ps) == ps

Renumber(ps) == [i \in 1..Len(ps) |-> [ps[i] EXCEPT !.order = i]]

EveryVisited(ps) == \A i \in 1..Len(ps) : ps[i].isVisited

\* Array.prototype.find: the index of the first entry with that placeId, or 0
FindPlace(ps, placeId) ==
    IF \E i \in 1..Len(ps) : ps[i].placeId = placeId
    THEN CHOOSE i \in 1..Len(ps) :
            /\ ps[i].placeId = placeId
            /\ \A j \in 1..(i - 1) : ps[j].placeId # placeId
    ELSE 0

-----------------------------------------------------------------------------
(* Itinerary document methods *)

\* mutant: the stored total is left as it was
updateTotalsStale(it) == it

updateTotals(it) == [it EXCEPT !.totalDuration = SumDurations(it.places)]

\* the sub-document Mongoose casts a pushed or assigned places entry to
CastPlace(raw) ==
    [placeId |-> raw.placeId,
     name |-> raw.name,
     category |-> raw.category,
     order |-> raw.order,
     estimatedDuration |->
        IF raw.estimatedDuration = Unset THEN DefaultDuration
        ELSE raw.estimatedDuration,
     isVisited |-> raw.isVisited,
     rating |-> raw.rating]

addPlace(it, placeData) ==
    LET maxOrder == IF Len(it.places) > 0 THEN MaxOrder(it.places) ELSE 0
        pushed == Append(it.places,
                         CastPlace([placeData EXCEPT !.order = maxOrder + 1]))
    IN  updateTotals([it EXCEPT !.places = pushed])

\* mutant: the total is not recomputed after a removal
removePlaceKeepsTotal(it, placeId) ==
    [it EXCEPT !.places = Renumber(FilterOutPlace(it.places, placeId))]

removePlace(it, placeId) ==
    updateTotals([it EXCEPT !.places = Renumber(FilterOutPlace(it.places, placeId))])

\* mutant: the completion flag is recomputed on every call
markPlaceVisitedRecomputed(it, placeId, rating, t) ==
    LET i == FindPlace(it.places, placeId)
        marked ==
            IF i # 0
            THEN [it.places EXCEPT ![i] =
                    [@ EXCEPT !.isVisited = TRUE,
                              !.rating = IF rating # Unset THEN rating ELSE @]]
            ELSE it.places
    IN  [it EXCEPT !.places = marked,
                   !.isCompleted = EveryVisited(marked),
                   !.completedAt = IF EveryVisited(marked) THEN t ELSE Unset]

markPlaceVisited(it, placeId, rating, t) ==
    LET i == FindPlace(it.places, placeId)
        marked ==
            IF i # 0
            THEN [it.places EXCEPT ![i] =
                    [@ EXCEPT !.isVisited = TRUE,
                              !.rating = IF rating # Unset THEN rating ELSE @]]
            ELSE it.places
    IN  IF EveryVisited(marked)
        THEN [it EXCEPT !.places = marked, !.isCompleted = TRUE, !.completedAt = t]
        ELSE [it EXCEPT !.places = marked]

\* mutant: a like is pushed whether or not the user already likes the itinerary
toggleLikeAlwaysPushes(it, userId, t) ==
    [it EXCEPT !.likes = Append(it.likes, [user |-> userId, likedAt |-> t])]

\* mutant: unliking keeps the user's like and drops everyone else's
toggleLikeInvertedFilter(it, userId, t) ==
    IF \E i \in 1..Len(it.likes) : it.likes[i].user = userId
    THEN [it EXCEPT !.likes = SelectSeq(it.likes, LAMBDA like : like.user = userId)]
    ELSE [it EXCEPT !.likes = Append(it.likes, [user |-> userId, likedAt |-> t])]

toggleLike(it, userId, t) ==
    IF \E i \in 1..Len(it.likes) : it.likes[i].user = userId
    THEN [it EXCEPT !.likes = SelectSeq(it.likes, LAMBDA like : like.user # userId)]
    ELSE [it EXCEPT !.likes = Append(it.likes, [user |-> userId, likedAt |-> t])]

-----------------------------------------------------------------------------
(* Itinerary controller *)

Outcome(op, status, id) ==
    [op |-> op, status |-> status, detail |-> "", input |-> "", id |-> id, fsqId |-> "",
     remoteCalls |-> 0, remoteOk |-> TRUE, writeOk |-> TRUE, result |-> <<>>,
     llmCalls |-> 0, request |-> <<>>]

\* the ids of the documents in the Itinerary collection
Stored == {id \in ItinIds : itineraries[id].exists}

\* the ids requests name in the :id parameter: those of the stored itineraries,
\* and i1 whether it is stored or not
RequestIds == Stored \cup {"i1"}

\* mutant: the lookup also finds other users' public itineraries
FindOwnedOrPublic(id) ==
    /\ itineraries[id].exists
    /\ (itineraries[id].user = session \/ itineraries[id].isPublic)

\* Itinerary.findOne({ _id: id, user: req.user._id })
FindOwned(id) == itineraries[id].exists /\ itineraries[id].user = session

NotFound(op, id) ==
    /\ last' = Outcome(op, "notFound", id)
    /\ UNCHANGED <<users, favorites, loaded, now, session, itineraries, likeToggles, placeCache, provider>>

Saved(op, input, id, doc) ==
    /\ itineraries' = [itineraries EXCEPT ![id] = doc]
    /\ last' = [Outcome(op, "ok", id) EXCEPT !.input = input]
    /\ UNCHANGED <<users, favorites, loaded, now, session, likeToggles, placeCache, provider>>

\* a places entry as a request body carries it
RawPlaces ==
    [placeId : {"f1"}, name : {<<"J", "o", "e">>}, category : {<<"C", "a", "f", "e">>},
     order : {1, MaxPlaces}, estimatedDuration : {Unset, 30},
     isVisited : {FALSE}, rating : {Unset}]

MaxBulk == 2

BulkLists == UNION {[1..n -> RawPlaces] : n \in 0..MaxBulk}

\* a request body of PUT /itineraries/:id; absent fields are "" / hasPlaces = FALSE
UpdateBodies ==
    {[title |-> "", description |-> "", hasPlaces |-> TRUE, places |-> ps,
      isPublic |-> "absent"] : ps \in BulkLists}
    \cup
    {[title |-> t, description |-> t, hasPlaces |-> FALSE, places |-> <<>>,
      isPublic |-> p] : t \in {"", "t2"}, p \in {"absent", "true", "false"}}

updatedItinerary(it, body) ==
    LET a == IF body.title # "" THEN [it EXCEPT !.title = body.title] ELSE it
        b == IF body.description # ""
             THEN [a EXCEPT !.description = body.description] ELSE a
        c == IF body.hasPlaces
             THEN updateTotals([b EXCEPT !.places =
                    [i \in 1..Len(body.places) |-> CastPlace(body.places[i])]])
             ELSE b
    IN  IF body.isPublic # "absent"
        THEN [c EXCEPT !.isPublic = (body.isPublic = "true")]
        ELSE c

updateItinerary(id, body) ==
    IF FindOwned(id)
    THEN Saved("updateItinerary", IF body.hasPlaces THEN "places" ELSE "", id,
               updatedItinerary(itineraries[id], body))
    ELSE NotFound("updateItinerary", id)

UpdateItinerary == \E id \in RequestIds, body \in UpdateBodies : updateItinerary(id, body)

DeleteItinerary ==
    \E id \in RequestIds :
        IF FindOwned(id)
        THEN /\ itineraries' = [itineraries EXCEPT ![id] = NoItin]
             /\ likeToggles' = [likeToggles EXCEPT ![id] = [v \in Users |-> 0]]
             /\ last' = Outcome("deleteItinerary", "ok", id)
             /\ UNCHANGED <<users, favorites, loaded, now, session, placeCache, provider>>
        ELSE NotFound("deleteItinerary", id)

MarkPlaceVisited ==
    \E id \in RequestIds, placeId \in PlaceIds, rating \in {Unset, 4} :
        IF FindOwned(id)
        THEN Saved("markPlaceVisited", placeId, id,
                   markPlaceVisited(itineraries[id], placeId, rating, now))
        ELSE NotFound("markPlaceVisited", id)

AddPlaceToItinerary ==
    \E id \in RequestIds, placeId \in FsqIds, estimatedDuration \in {Unset, 30} :
        IF FindOwned(id)
        THEN /\ Len(itineraries[id].places) < MaxPlaces
             /\ Saved("addPlace", placeId, id,
                      addPlace(itineraries[id],
                               [placeId |-> placeId,
                                name |-> <<"J", "o", "e">>,
                                category |-> <<"C", "a", "f", "e">>,
                                order |-> Unset,
                                estimatedDuration |->
                                    IF estimatedDuration # Unset THEN estimatedDuration
                                    ELSE DefaultDuration,
                                isVisited |-> FALSE, rating |-> Unset]))
        ELSE NotFound("addPlace", id)

\* document.save() of a copy that was read as `before` and changed to `after` by
\* addPlace: Mongoose sends the changes, not the document: a $push of the
\* pushed entries and a $set of the paths that changed, applied to the stored
\* document as it is at the time of the save
saveChanges(stored, before, after) ==
    [stored EXCEPT
        !.places = @ \o SubSeq(after.places, Len(before.places) + 1, Len(after.places)),
        !.totalDuration = IF after.totalDuration # before.totalDuration
                          THEN after.totalDuration ELSE @]

InFlight(id) == {r \in Requests : loaded[r].busy /\ loaded[r].id = id}

\* addPlaceToItinerary up to the answer of Itinerary.findOne, for a request that
\* runs beside others
AddPlaceLoad ==
    \E r \in Requests, id \in RequestIds, placeId \in FsqIds,
       estimatedDuration \in {Unset, 30} :
        /\ ~loaded[r].busy
        /\ FindOwned(id)
        /\ Len(itineraries[id].places) + Cardinality(InFlight(id)) < MaxPlaces
        /\ loaded' = [loaded EXCEPT ![r] =
                [busy |-> TRUE, id |-> id, doc |-> itineraries[id],
                 placeData |-> [placeId |-> placeId,
                                name |-> <<"J", "o", "e">>,
                                category |-> <<"C", "a", "f", "e">>,
                                order |-> Unset,
                                estimatedDuration |->
                                    IF estimatedDuration # Unset THEN estimatedDuration
                                    ELSE DefaultDuration,
                                isVisited |-> FALSE, rating |-> Unset]]]
        /\ last' = [Outcome("findOne", "ok", id) EXCEPT !.request = r]
        /\ UNCHANGED <<users, favorites, now, session, itineraries, likeToggles,
                       placeCache, provider>>

\* the rest of addPlaceToItinerary: itinerary.addPlace(...) on the copy that was
\* read, and its save
AddPlaceSave ==
    \E r \in Requests :
        /\ loaded[r].busy
        /\ LET id == loaded[r].id
               before == loaded[r].doc
               after == addPlace(before, loaded[r].placeData)
           IN  /\ itineraries' = [itineraries EXCEPT
                                    ![id] = saveChanges(@, before, after)]
               /\ last' = [Outcome("addPlace", "ok", id) EXCEPT
                                !.input = loaded[r].placeData.placeId,
                                !.request = r]
        /\ loaded' = [loaded EXCEPT ![r] = Idle]
        /\ UNCHANGED <<users, favorites, now, session, likeToggles, placeCache, provider>>

RemovePlaceFromItinerary ==
    \E id \in RequestIds, placeId \in PlaceIds :
        IF FindOwned(id)
        THEN Saved("removePlace", placeId, id, removePlace(itineraries[id], placeId))
        ELSE NotFound("removePlace", id)

\* Itinerary.findById(id): any authenticated user may like
ToggleLike ==
    \E id \in RequestIds :
        IF itineraries[id].exists
        THEN /\ itineraries' = [itineraries EXCEPT ![id] = toggleLike(@, session, now)]
             /\ likeToggles' = [likeToggles EXCEPT ![id][session] = 1 - @]
             /\ last' = Outcome("toggleLike", "ok", id)
             /\ UNCHANGED <<users, favorites, loaded, now, session, placeCache, provider>>
        ELSE NotFound("toggleLike", id)

ShareItinerary ==
    \E id \in RequestIds :
        IF FindOwned(id)
        THEN /\ itineraries[id].shares < MaxShares
             /\ Saved("shareItinerary", "", id, [itineraries[id] EXCEPT !.shares = @ + 1])
        ELSE NotFound("shareItinerary", id)

(* Environment: the clock advances; another user authenticates *)

Tick ==
    /\ now < MaxTime
    /\ now' = now + 1
    /\ last' = Outcome("tick", "ok", "")
    /\ UNCHANGED <<users, favorites, loaded, session, itineraries, likeToggles, placeCache, provider>>

SwitchUser ==
    \E u \in Users \ {session} :
        /\ session' = u
        /\ last' = Outcome("login", "ok", "")
        /\ UNCHANGED <<users, favorites, loaded, now, itineraries, likeToggles, placeCache, provider>>

-----------------------------------------------------------------------------
(* Foursquare places gateway and Place cache *)

Ratings == {7, 9}
NoPlace == [exists |-> FALSE]

\* strings the code searches inside are sequences of characters
Lower(c) ==
    CASE c = "C" -> "c" [] c = "J" -> "j" [] c = "P" -> "p" [] OTHER -> c

toLowerCase(str) == [i \in 1..Len(str) |-> Lower(str[i])]

\* String.prototype.includes
includes(str, sub) ==
    \E k \in 0..(Len(str) - Len(sub)) :
        \A i \in 1..Len(sub) : str[k + i] = sub[i]

\* what the provider knows of each place (static part)
CatalogName(fsqId) ==
    IF fsqId = "f1" THEN <<"J", "o", "e">> ELSE <<"P", "a", "r", "k">>

CatalogCategories(fsqId) ==
    IF fsqId = "f1" THEN << <<"C", "a", "f", "e">> >> ELSE <<>>

\* a place object of a provider response body; the provider sends stats for f1 only
RawPlace(fsqId, rating) ==
    LET common == [fsq_id |-> fsqId, name |-> CatalogName(fsqId),
                   categories |-> CatalogCategories(fsqId), rating |-> rating]
    IN  IF fsqId = "f1"
        THEN common @@ [stats |-> [total_photos |-> 0, total_tips |-> 0,
                                   total_checkins |-> 1]]
        ELSE common

Undefined == [defined |-> FALSE]
Defined(v) == [defined |-> TRUE, value |-> v]
Field(rec, f) == IF f \in DOMAIN rec THEN Defined(rec[f]) ELSE Undefined

UnknownCategory == <<"U", "n", "k", "n", "o", "w", "n">>

\* one tick of the model's clock is HoursPerTick hours
HoursPerTick == 12
MaxAgeHours == 24

\* mutant: a record exactly 24 hours old still counts as valid
isCacheValidInclusive(lastUpdated, t) ==
    (t - lastUpdated) * HoursPerTick <= MaxAgeHours

isCacheValid(lastUpdated, t) ==
    LET cacheAge == (t - lastUpdated) * HoursPerTick
        maxAge == MaxAgeHours
    IN  cacheAge < maxAge

formatPlace(place) ==
    [id |-> IF "foursquareId" \in DOMAIN place THEN place.foursquareId ELSE place.fsq_id,
     name |-> place.name,
     category |-> Field(place, "category"),
     categories |-> place.categories,
     rating |-> place.rating,
     stats |-> Field(place, "stats"),
     popularity |-> IF "popularity" \in DOMAIN place THEN place.popularity ELSE 0]

formatPlaces(places) == [i \in 1..Len(places) |-> formatPlace(places[i])]

\* placeSchema.methods.updatePopularity, in tenths of a point; no handler and no
\* hook of the Place schema calls it
updatePopularity(place) ==
    LET checkins == place.stats.totalCheckins
        tips == place.stats.totalTips
        photos == place.stats.totalPhotos
        rating == place.rating
    IN  [place EXCEPT !.popularity = checkins * 4 + tips * 3 + photos * 2 + rating * 1]

\* Place.findOneAndUpdate({ foursquareId }, placeDoc, { upsert: true }): the fields
\* of placeDoc are set; the schema defaults of the fields it does not name
\* (lastUpdated: Date.now, popularity: 0) are applied on insert only
cachePlace(cache, placeData, writeOk, t) ==
    LET placeDoc ==
            [foursquareId |-> placeData.fsq_id,
             name |-> placeData.name,
             category |-> IF Len(placeData.categories) > 0
                          THEN placeData.categories[1] ELSE UnknownCategory,
             categories |-> placeData.categories,
             rating |-> placeData.rating,
             stats |-> IF "stats" \in DOMAIN placeData
                       THEN [totalPhotos |-> placeData.stats.total_photos,
                             totalTips |-> placeData.stats.total_tips,
                             totalCheckins |-> placeData.stats.total_checkins]
                       ELSE [totalPhotos |-> 0, totalTips |-> 0, totalCheckins |-> 0]]
        old == cache[placeData.fsq_id]
        lastUpdated == IF old.exists THEN old.lastUpdated ELSE t
        popularity == IF old.exists THEN old.popularity ELSE 0
    IN  IF writeOk
        THEN [cache EXCEPT ![placeData.fsq_id] =
                [exists |-> TRUE, lastUpdated |-> lastUpdated,
                 popularity |-> popularity] @@ placeDoc]
        ELSE cache

RECURSIVE cachePlaces(_, _, _, _)
cachePlaces(cache, places, writeOk, t) ==
    IF places = <<>> THEN cache
    ELSE cachePlaces(cachePlace(cache, Head(places), writeOk, t), Tail(places), writeOk, t)

\* the result lists the provider may answer a search with
ResultLists ==
    {ids \in UNION {[1..n -> FsqIds] : n \in 0..Cardinality(FsqIds)} :
        \A i, j \in 1..Len(ids) : i # j => ids[i] # ids[j]}

ProviderResults(ids) == [i \in 1..Len(ids) |-> RawPlace(ids[i], provider[ids[i]])]

GatewayOutcome(op, status, fsqId, remoteCalls, remoteOk, writeOk, result) ==
    [op |-> op, status |-> status, detail |-> "", input |-> "", id |-> "", fsqId |-> fsqId,
     remoteCalls |-> remoteCalls, remoteOk |-> remoteOk, writeOk |-> writeOk,
     result |-> result, llmCalls |-> 0, request |-> <<>>]

\* mutant: a failed provider request is answered with an empty result, as
\* getPlacePhotos and getPlaceTips do
searchPlacesDegrades(remoteOk, ids, writeOk) ==
    /\ placeCache' = IF remoteOk
                     THEN cachePlaces(placeCache, ProviderResults(ids), writeOk, now)
                     ELSE placeCache
    /\ last' = GatewayOutcome("searchPlaces", "ok", "", 1, remoteOk, writeOk,
                              IF remoteOk THEN formatPlaces(ProviderResults(ids))
                              ELSE <<>>)

\* mutant: a failed cache write fails the search
searchPlacesWriteThrough(remoteOk, ids, writeOk) ==
    IF remoteOk /\ writeOk
    THEN /\ placeCache' = cachePlaces(placeCache, ProviderResults(ids), writeOk, now)
         /\ last' = GatewayOutcome("searchPlaces", "ok", "", 1, TRUE, writeOk,
                                   formatPlaces(ProviderResults(ids)))
    ELSE /\ placeCache' = placeCache
         /\ last' = GatewayOutcome("searchPlaces", "error", "", 1, remoteOk, writeOk, <<>>)

\* FoursquareService.searchPlaces: remoteOk is whether the provider request returns
searchPlaces(remoteOk, ids, writeOk) ==
    IF remoteOk
    THEN /\ placeCache' = cachePlaces(placeCache, ProviderResults(ids), writeOk, now)
         /\ last' = GatewayOutcome("searchPlaces", "ok", "", 1, TRUE, writeOk,
                                   formatPlaces(ProviderResults(ids)))
    ELSE /\ placeCache' = placeCache
         /\ last' = GatewayOutcome("searchPlaces", "error", "", 1, FALSE, writeOk, <<>>)

SearchPlaces ==
    \E remoteOk \in BOOLEAN, ids \in ResultLists, writeOk \in BOOLEAN :
        /\ remoteOk \/ (ids = <<>> /\ writeOk)
        /\ searchPlaces(remoteOk, ids, writeOk)
        /\ UNCHANGED <<users, favorites, loaded, now, session, itineraries, likeToggles, provider>>

\* FoursquareService.getTrendingPlaces
getTrendingPlaces(remoteOk, ids, writeOk) ==
    IF remoteOk
    THEN /\ placeCache' = cachePlaces(placeCache, ProviderResults(ids), writeOk, now)
         /\ last' = GatewayOutcome("getTrendingPlaces", "ok", "", 1, TRUE, writeOk,
                                   formatPlaces(ProviderResults(ids)))
    ELSE /\ placeCache' = placeCache
         /\ last' = GatewayOutcome("getTrendingPlaces", "error", "", 1, FALSE, writeOk,
                                   <<>>)

GetTrendingPlaces ==
    \E remoteOk \in BOOLEAN, ids \in ResultLists, writeOk \in BOOLEAN :
        /\ remoteOk \/ (ids = <<>> /\ writeOk)
        /\ getTrendingPlaces(remoteOk, ids, writeOk)
        /\ UNCHANGED <<users, favorites, loaded, now, session, itineraries, likeToggles, provider>>

getPlaceDetails(fsqId, remoteOk, writeOk) ==
    LET cachedPlace == placeCache[fsqId]
        placeData == RawPlace(fsqId, provider[fsqId])
    IN  IF cachedPlace.exists /\ isCacheValid(cachedPlace.lastUpdated, now)
        THEN /\ placeCache' = placeCache
             /\ last' = GatewayOutcome("getPlaceDetails", "ok", fsqId, 0, TRUE,
                                       TRUE, formatPlace(cachedPlace))
        ELSE IF remoteOk
        THEN /\ placeCache' = cachePlace(placeCache, placeData, writeOk, now)
             /\ last' = GatewayOutcome("getPlaceDetails", "ok", fsqId, 1, TRUE,
                                       writeOk, formatPlace(placeData))
        ELSE /\ placeCache' = placeCache
             /\ last' = GatewayOutcome("getPlaceDetails", "error", fsqId, 1, FALSE,
                                       writeOk, <<>>)

GetPlaceDetails ==
    \E fsqId \in FsqIds, remoteOk \in BOOLEAN, writeOk \in BOOLEAN :
        /\ getPlaceDetails(fsqId, remoteOk, writeOk)
        /\ UNCHANGED <<users, favorites, loaded, now, session, itineraries, likeToggles, provider>>

\* placesController.getPlaceDetails, the handler of GET /api/places/:id: it looks
\* the record up itself and calls FoursquareService.getPlaceDetails only when
\* there is none (the service then finds none either and asks the provider);
\* userInteraction is read from the user and changes nothing
placesController_getPlaceDetails(id, remoteOk, writeOk) ==
    LET place == placeCache[id]
        placeData == RawPlace(id, provider[id])
    IN  IF place.exists
        THEN /\ placeCache' = placeCache
             /\ last' = GatewayOutcome("GET /places/:id", "ok", id, 0, TRUE, TRUE,
                                       formatPlace(place))
        ELSE IF remoteOk
        THEN /\ placeCache' = cachePlace(placeCache, placeData, writeOk, now)
             /\ last' = GatewayOutcome("GET /places/:id", "ok", id, 1, TRUE, writeOk,
                                       formatPlace(placeData))
        ELSE /\ placeCache' = placeCache
             /\ last' = GatewayOutcome("GET /places/:id", "error", id, 1, FALSE,
                                       writeOk, <<>>)

\* the provider revises a place's rating (environment)
ProviderUpdate ==
    \E fsqId \in FsqIds, rating \in Ratings :
        /\ provider[fsqId] # rating
        /\ provider' = [provider EXCEPT ![fsqId] = rating]
        /\ last' = GatewayOutcome("providerUpdate", "ok", fsqId, 0, TRUE, TRUE, <<>>)
        /\ UNCHANGED <<users, favorites, loaded, now, session, itineraries, likeToggles, placeCache>>

-----------------------------------------------------------------------------
(* OpenAI gateway and itinerary generation *)

\* what the chat completion may contain: text that is not JSON, JSON that is no
\* object with a places array, or an itinerary skeleton
Stubs ==
    {[name |-> <<"J", "o", "e">>, category |-> <<"c", "a", "f", "e">>,
      estimatedDuration |-> 45],
     [name |-> <<"z", "o", "o">>, category |-> <<"c", "a", "f", "e">>,
      estimatedDuration |-> Unset]}

MaxStubs == 2

Skeletons ==
    [title : {"", "t1"},
     places : UNION {[1..n -> Stubs] : n \in 0..MaxStubs},
     totalDuration : {Unset, 100}]

TextReplies == {[kind |-> "text"], [kind |-> "scalar"]}

\* mutant: a reply that is not JSON is answered with an empty default skeleton
parseItineraryResponseLenient(response) ==
    [success |-> TRUE,
     itinerary |->
        IF response.kind = "object" THEN Defined(response.value)
        ELSE IF response.kind = "text"
        THEN Defined([title |-> "t1", places |-> <<>>, totalDuration |-> Unset])
        ELSE Undefined]

\* JSON.parse inside parseItineraryResponse: a SyntaxError on anything but JSON
parseItineraryResponse(response) ==
    IF response.kind = "text"
    THEN [success |-> FALSE, error |-> "Failed to generate itinerary"]
    ELSE [success |-> TRUE,
          itinerary |-> IF response.kind = "object" THEN Defined(response.value)
                        ELSE Undefined]

\* searchResults.find(result => name includes ... || category includes ...):
\* "match" with the result, "none", or "throw" when the predicate raises a TypeError
RECURSIVE FindBestMatch(_, _)
FindBestMatch(results, stub) ==
    IF results = <<>> THEN [kind |-> "none"]
    ELSE LET result == Head(results)
         IN  IF includes(toLowerCase(result.name), toLowerCase(stub.name))
             THEN [kind |-> "match", place |-> result]
             ELSE IF ~result.category.defined
             THEN [kind |-> "throw"]
             ELSE IF includes(toLowerCase(result.category.value),
                              toLowerCase(stub.category))
             THEN [kind |-> "match", place |-> result]
             ELSE FindBestMatch(Tail(results), stub)

\* mutant: every unresolved stub gets the same placeholder id
ResolveStubOnePlaceholder(stub, index, search) ==
    LET bestMatch ==
            IF search.remoteOk
            THEN FindBestMatch(formatPlaces(ProviderResults(search.ids)), stub)
            ELSE [kind |-> "throw"]
    IN  [placeId |-> IF bestMatch.kind = "match" THEN bestMatch.place.id
                     ELSE Placeholder(0),
         name |-> IF bestMatch.kind = "match" THEN bestMatch.place.name ELSE stub.name,
         category |-> IF bestMatch.kind = "match" /\ bestMatch.place.category.defined
                      THEN bestMatch.place.category.value ELSE stub.category,
         order |-> index + 1,
         estimatedDuration |-> IF stub.estimatedDuration # Unset
                               THEN stub.estimatedDuration ELSE DefaultDuration,
         isVisited |-> FALSE,
         rating |-> Unset]

\* one callback of aiResponse.itinerary.places.map; search is that stub's
\* provider outcome [remoteOk, ids]
ResolveStub(stub, index, search) ==
    LET bestMatch ==
            IF search.remoteOk
            THEN FindBestMatch(formatPlaces(ProviderResults(search.ids)), stub)
            ELSE [kind |-> "throw"]
    IN  [placeId |-> IF bestMatch.kind = "match" THEN bestMatch.place.id
                     ELSE Placeholder(index),
         name |-> IF bestMatch.kind = "match" THEN bestMatch.place.name ELSE stub.name,
         category |-> IF bestMatch.kind = "match" /\ bestMatch.place.category.defined
                      THEN bestMatch.place.category.value ELSE stub.category,
         order |-> index + 1,
         estimatedDuration |-> IF stub.estimatedDuration # Unset
                               THEN stub.estimatedDuration ELSE DefaultDuration,
         isVisited |-> FALSE,
         rating |-> Unset]

\* the answers the provider gives one stub's search in the model
SearchOutcomes ==
    {[remoteOk |-> FALSE, ids |-> <<>>]}
        \cup {[remoteOk |-> TRUE, ids |-> ids] :
                ids \in {<<>>, <<"f1">>, <<"f2", "f1">>}}

RECURSIVE CacheSearches(_, _, _, _)
CacheSearches(cache, searches, writeOk, t) ==
    IF searches = <<>> THEN cache
    ELSE CacheSearches(
            IF Head(searches).remoteOk
            THEN cachePlaces(cache, ProviderResults(Head(searches).ids), writeOk, t)
            ELSE cache,
            Tail(searches), writeOk, t)

\* u2 has stored a location (PUT /auth/location), u1 never has
HasStoredLocation(u) == u = "u2"

\* user.location.coordinates.join(','): the document of a user who never stored
\* a location holds the schema default [0, 0]
StoredLocation(u) == IF HasStoredLocation(u) THEN "3,4" ELSE "0,0"

\* Itinerary.create(...): schema defaults for what the handler does not pass
NewItinerary(u, sk, places) ==
    [exists |-> TRUE, user |-> u, title |-> sk.title, description |-> "d1",
     places |-> places, totalDuration |-> sk.totalDuration,
     isPublic |-> FALSE, isCompleted |-> FALSE, completedAt |-> Unset,
     likes |-> <<>>, shares |-> 0]

\* the _id a created document gets: the first id not in use
NewId == IF ~itineraries["i1"].exists THEN "i1" ELSE "i2"

\* input is the kind of reply the handler received, "" when it asked for none
GenerateFails(status, detail, input, request, llmCalls) ==
    /\ last' = [Outcome("generateItinerary", status, "") EXCEPT
                    !.detail = detail, !.input = input, !.request = request,
                    !.llmCalls = llmCalls]
    /\ UNCHANGED <<users, favorites, loaded, now, session, itineraries, likeToggles, provider>>

\* the handler on one request: llmOk is whether the completion request returns,
\* reply its content, searches the provider's answer to each stub's search
generateItinerary(hasPrompt, location, llmOk, reply, searches, writeOk) ==
    LET searchLocation == IF location # "" THEN location ELSE StoredLocation(session)
        aiResponse == parseItineraryResponse(reply)
        sk == aiResponse.itinerary.value
        itineraryPlaces ==
            [i \in 1..Len(sk.places) |-> ResolveStub(sk.places[i], i - 1, searches[i])]
        request == [location |-> location, searchLocation |-> searchLocation]
    IN  IF ~hasPrompt
        THEN GenerateFails("badRequest", "prompt", "", request, 0)
                /\ placeCache' = placeCache
        ELSE IF searchLocation = ""
        THEN GenerateFails("badRequest", "location", "", request, 0)
                /\ placeCache' = placeCache
        ELSE IF ~llmOk
        THEN GenerateFails("error", "llm", "", request, 1) /\ placeCache' = placeCache
        ELSE IF ~aiResponse.success
        THEN GenerateFails("error", "unparseable", reply.kind, request, 1)
                /\ placeCache' = placeCache
        ELSE IF ~aiResponse.itinerary.defined
        THEN GenerateFails("error", "shape", reply.kind, request, 1)
                /\ placeCache' = placeCache
        ELSE /\ placeCache' = CacheSearches(placeCache, searches, writeOk, now)
             /\ IF sk.title = ""
                THEN GenerateFails("error", "validation", reply.kind, request, 1)
                ELSE LET id == NewId
                     IN  /\ Cardinality(Stored) < MaxItins
                         /\ itineraries' =
                            [itineraries EXCEPT ![id] =
                                NewItinerary(session, sk, itineraryPlaces)]
                         /\ last' = [Outcome("generateItinerary", "ok", id) EXCEPT
                                        !.input = reply.kind, !.request = request,
                                        !.llmCalls = 1, !.result = sk.places]
                         /\ UNCHANGED <<users, favorites, loaded, now, session, likeToggles, provider>>

GenerateItinerary ==
    \/ \E hasPrompt \in BOOLEAN, location \in {"", "1,2"}, llmOk \in BOOLEAN,
          reply \in TextReplies :
            generateItinerary(hasPrompt, location, llmOk, reply, <<>>, TRUE)
    \/ \E sk \in Skeletons, writeOk \in BOOLEAN :
        \E searches \in [1..Len(sk.places) -> SearchOutcomes] :
            generateItinerary(TRUE, "1,2", TRUE,
                              [kind |-> "object", value |-> sk], searches, writeOk)

-----------------------------------------------------------------------------
(* Itinerary queries and the itinerary router *)

MaxLimit == 2
DefaultLimit == 10

Min(a, b) == IF a < b THEN a ELSE b

\* the orders in which a query may return the documents ids: every arrangement
\* of them that the pairs <<a, b>> of before, "a must come before b", allow
Arrangements(ids, before) ==
    {order \in [1..Cardinality(ids) -> ids] :
        /\ \A i, j \in 1..Cardinality(ids) : i # j => order[i] # order[j]
        /\ \A i, j \in 1..Cardinality(ids) :
                i < j => <<order[j], order[i]>> \notin before}

Limited(order, limit) == SubSeq(order, 1, Min(limit, Len(order)))

\* the value a sort on the path 'likes.length' reads from a document: the field
\* `length` of the likes sub-documents, which have user and likedAt only, so the
\* path is missing (null) in every document
LikesLengthPath(it) == Unset

\* Itinerary.findPopular(limit): find({ isPublic: true })
\* .sort({ 'likes.length': -1, shares: -1 }).limit(limit); documents with equal
\* keys come in an order the store chooses
findPopular(limit) ==
    LET found == {id \in Stored : itineraries[id].isPublic}
        before ==
            {pair \in found \X found :
                LET a == itineraries[pair[1]]
                    b == itineraries[pair[2]]
                IN  \/ LikesLengthPath(a) > LikesLengthPath(b)
                    \/ /\ LikesLengthPath(a) = LikesLengthPath(b)
                       /\ a.shares > b.shares}
    IN  {Limited(order, limit) : order \in Arrangements(found, before)}

\* ids are handed out in increasing order: i2 was created after i1
CreatedBefore(a, b) == a = "i1" /\ b = "i2"

\* Itinerary.findByLocation(...): the public itineraries near the point, newest
\* first; every itinerary of the model lies within the radius
findByLocation(limit) ==
    LET found == {id \in Stored : itineraries[id].isPublic}
        before == {pair \in found \X found : CreatedBefore(pair[2], pair[1])}
    IN  {Limited(order, limit) : order \in Arrangements(found, before)}

\* Itinerary.find({ user }).sort({ createdAt: -1 }).limit(limit)
findOwn(limit) ==
    LET found == {id \in Stored : itineraries[id].user = session}
        before == {pair \in found \X found : CreatedBefore(pair[2], pair[1])}
    IN  {Limited(order, limit) : order \in Arrangements(found, before)}

\* what FoursquareService.getPlaceDetails leaves in the cache
detailsCache(cache, fsqId, remoteOk, writeOk, t) ==
    IF cache[fsqId].exists /\ isCacheValid(cache[fsqId].lastUpdated, t)
    THEN cache
    ELSE IF remoteOk
    THEN cachePlace(cache, RawPlace(fsqId, provider[fsqId]), writeOk, t)
    ELSE cache

\* getItinerary's detail lookups: one getPlaceDetails per entry that is not a
\* placeholder
RECURSIVE lookupDetails(_, _, _, _, _)
lookupDetails(cache, places, remoteOk, writeOk, t) ==
    IF places = <<>> THEN cache
    ELSE lookupDetails(
            IF Head(places).placeId \in FsqIds
            THEN detailsCache(cache, Head(places).placeId, remoteOk, writeOk, t)
            ELSE cache,
            Tail(places), remoteOk, writeOk, t)

\* the router's table, in the order of registration; a path is the sequence of
\* its segments below /api/itineraries
Routes ==
    <<[method |-> "POST", path |-> <<"generate">>, auth |-> TRUE, idValidation |-> FALSE,
       handler |-> "generateItinerary"],
      [method |-> "GET", path |-> <<>>, auth |-> TRUE, idValidation |-> FALSE,
       handler |-> "getUserItineraries"],
      [method |-> "GET", path |-> <<":id">>, auth |-> TRUE, idValidation |-> TRUE,
       handler |-> "getItinerary"],
      [method |-> "PUT", path |-> <<":id">>, auth |-> TRUE, idValidation |-> TRUE,
       handler |-> "updateItinerary"],
      [method |-> "DELETE", path |-> <<":id">>, auth |-> TRUE, idValidation |-> TRUE,
       handler |-> "deleteItinerary"],
      [method |-> "POST", path |-> <<":id", "places">>, auth |-> TRUE,
       idValidation |-> TRUE, handler |-> "addPlaceToItinerary"],
      [method |-> "DELETE", path |-> <<":id", "places", ":placeId">>, auth |-> TRUE,
       idValidation |-> TRUE, handler |-> "removePlaceFromItinerary"],
      [method |-> "PUT", path |-> <<":id", "places", ":placeId", "visited">>,
       auth |-> TRUE, idValidation |-> TRUE, handler |-> "markPlaceVisited"],
      [method |-> "POST", path |-> <<":id", "like">>, auth |-> TRUE,
       idValidation |-> TRUE, handler |-> "toggleLike"],
      [method |-> "POST", path |-> <<":id", "share">>, auth |-> TRUE,
       idValidation |-> TRUE, handler |-> "shareItinerary"],
      [method |-> "GET", path |-> <<"popular">>, auth |-> FALSE, idValidation |-> FALSE,
       handler |-> "getPopularItineraries"],
      [method |-> "GET", path |-> <<"location">>, auth |-> FALSE, idValidation |-> FALSE,
       handler |-> "getItinerariesByLocation"]>>

IsParam(segment) == segment \in {":id", ":placeId", ":category"}

\* Express matches a route when the method is the route's and each segment is
\* the pattern's or stands for a parameter
Matches(route, method, path) ==
    /\ route.method = method
    /\ Len(route.path) = Len(path)
    /\ \A i \in 1..Len(path) : route.path[i] = path[i] \/ IsParam(route.path[i])

\* param('id').isMongoId(): the stored documents' ids are ObjectIds, words such
\* as popular are not
isMongoId(segment) == segment \in ItinIds

\* who answers a request: the first matching route's auth middleware (401), its
\* id validation (400), or its handler; nobody (404) when no route matches
Dispatch(method, path, hasToken) ==
    IF \E r \in 1..Len(Routes) : Matches(Routes[r], method, path)
    THEN LET r == CHOOSE r \in 1..Len(Routes) :
                    /\ Matches(Routes[r], method, path)
                    /\ \A q \in 1..(r - 1) : ~Matches(Routes[q], method, path)
             route == Routes[r]
         IN  IF route.auth /\ ~hasToken
             THEN [status |-> "unauthorized", by |-> "auth", route |-> route.handler]
             ELSE IF route.idValidation /\ ~isMongoId(path[1])
             THEN [status |-> "badRequest", by |-> "validateRequest",
                   route |-> route.handler]
             ELSE [status |-> "ok", by |-> route.handler, route |-> route.handler]
    ELSE [status |-> "notFound", by |-> "", route |-> ""]

\* the GET requests of the model: the list, one itinerary, popular, location
GetPaths == {<<>>, <<"popular">>, <<"location">>} \cup {<<id>> : id \in ItinIds}

Answer(status, by, path, hasToken, result) ==
    [Outcome("GET", status, IF path # <<>> THEN path[1] ELSE "") EXCEPT
        !.detail = by, !.result = result,
        !.request = [path |-> path, hasToken |-> hasToken]]

\* a GET request below /api/itineraries, from the router to the response; a
\* request with a token is the session's user's
HttpGet ==
    \E path \in GetPaths, hasToken \in BOOLEAN, remoteOk \in BOOLEAN, writeOk \in BOOLEAN :
        LET d == Dispatch("GET", path, hasToken)
        IN  /\ UNCHANGED <<users, favorites, loaded, now, session, itineraries, likeToggles, provider>>
            /\ IF d.by = "getItinerary"
               THEN IF FindOwned(path[1])
                    THEN /\ placeCache' = lookupDetails(placeCache,
                                            itineraries[path[1]].places,
                                            remoteOk, writeOk, now)
                         /\ last' = Answer("ok", d.by, path, hasToken, <<path[1]>>)
                    ELSE /\ placeCache' = placeCache
                         /\ last' = Answer("notFound", d.by, path, hasToken, <<>>)
               ELSE /\ placeCache' = placeCache
                    /\ remoteOk /\ writeOk
                    /\ IF d.by = "getUserItineraries"
                       THEN \E result \in findOwn(DefaultLimit) :
                                last' = Answer("ok", d.by, path, hasToken, result)
                       ELSE IF d.by = "getPopularItineraries"
                       THEN \E result \in findPopular(DefaultLimit) :
                                last' = Answer("ok", d.by, path, hasToken, result)
                       ELSE IF d.by = "getItinerariesByLocation"
                       THEN \E result \in findByLocation(DefaultLimit) :
                                last' = Answer("ok", d.by, path, hasToken, result)
                       ELSE last' = Answer(d.status, d.by, path, hasToken, <<>>)

\* the places router's table, in the order of registration; a path is the
\* sequence of its segments below /api/places; auth is the auth middleware
\* (optionalAuth turns no request away)
PlaceRoutes ==
    <<[method |-> "GET", path |-> <<"search">>, auth |-> FALSE,
       validation |-> "searchValidation", handler |-> "searchPlaces"],
      [method |-> "GET", path |-> <<":id">>, auth |-> FALSE,
       validation |-> "placeIdValidation", handler |-> "getPlaceDetails"],
      [method |-> "GET", path |-> <<":id", "photos">>, auth |-> FALSE,
       validation |-> "placeIdValidation", handler |-> "getPlacePhotos"],
      [method |-> "GET", path |-> <<":id", "tips">>, auth |-> FALSE,
       validation |-> "placeIdValidation", handler |-> "getPlaceTips"],
      [method |-> "GET", path |-> <<"category", ":category">>, auth |-> FALSE,
       validation |-> "locationValidation", handler |-> "searchByCategory"],
      [method |-> "GET", path |-> <<"trending">>, auth |-> FALSE,
       validation |-> "locationValidation", handler |-> "getTrendingPlaces"],
      [method |-> "GET", path |-> <<"nearby">>, auth |-> FALSE,
       validation |-> "locationValidation", handler |-> "getNearbyPlaces"],
      [method |-> "POST", path |-> <<"favorite">>, auth |-> TRUE,
       validation |-> "addToFavoritesValidation", handler |-> "addToFavorites"],
      [method |-> "DELETE", path |-> <<"favorite", ":placeId">>, auth |-> TRUE,
       validation |-> "placeIdValidation", handler |-> "removeFromFavorites"],
      [method |-> "POST", path |-> <<"visited">>, auth |-> TRUE,
       validation |-> "markAsVisitedValidation", handler |-> "markAsVisited"],
      [method |-> "GET", path |-> <<"favorites">>, auth |-> TRUE,
       validation |-> "none", handler |-> "getFavorites"],
      [method |-> "GET", path |-> <<"visited">>, auth |-> TRUE,
       validation |-> "none", handler |-> "getVisitedPlaces"]>>

\* a route's validation chain: placeIdValidation wants a non-empty param('id'),
\* searchValidation's fields are all optional, the others depend on what the
\* request sends (valid)
Validates(route, valid) ==
    IF route.validation = "placeIdValidation"
    THEN \E i \in 1..Len(route.path) : route.path[i] = ":id"
    ELSE IF route.validation \in {"searchValidation", "none"} THEN TRUE
    ELSE valid

\* who answers a request below /api/places: the first matching route's auth
\* middleware (401), its validation (400), or its handler
DispatchPlaces(method, path, hasToken, valid) ==
    IF \E r \in 1..Len(PlaceRoutes) : Matches(PlaceRoutes[r], method, path)
    THEN LET r == CHOOSE r \in 1..Len(PlaceRoutes) :
                    /\ Matches(PlaceRoutes[r], method, path)
                    /\ \A q \in 1..(r - 1) : ~Matches(PlaceRoutes[q], method, path)
             route == PlaceRoutes[r]
         IN  IF route.auth /\ ~hasToken
             THEN [status |-> "unauthorized", by |-> "auth", route |-> route.handler]
             ELSE IF ~Validates(route, valid)
             THEN [status |-> "badRequest", by |-> "validateRequest",
                   route |-> route.handler]
             ELSE [status |-> "ok", by |-> route.handler, route |-> route.handler]
    ELSE [status |-> "notFound", by |-> "", route |-> ""]

\* the GET requests of the model below /api/places
PlacesGetPaths ==
    {<<"search">>, <<"trending">>, <<"nearby">>, <<"favorites">>, <<"visited">>,
     <<"category", "cafe">>}
    \cup {<<f>> : f \in FsqIds}

\* a GET request below /api/places, from the router to the response: the
\* details handler runs as placesController.getPlaceDetails does (a word that
\* is no place of the provider's is answered with its error); the other
\* handlers' answers are recorded by who gave them
PlacesGet ==
    \E path \in PlacesGetPaths, hasToken \in BOOLEAN, valid \in BOOLEAN,
       remoteOk \in BOOLEAN, writeOk \in BOOLEAN :
        LET d == DispatchPlaces("GET", path, hasToken, valid)
        IN  /\ UNCHANGED <<users, favorites, loaded, now, session, itineraries, likeToggles, provider>>
            /\ IF d.by = "getPlaceDetails" /\ path[1] \in FsqIds
               THEN placesController_getPlaceDetails(path[1], remoteOk, writeOk)
               ELSE /\ placeCache' = placeCache
                    /\ remoteOk /\ writeOk
                    /\ last' = [Answer(IF d.by = "getPlaceDetails" THEN "error"
                                       ELSE d.status,
                                       d.by, path, hasToken, <<>>) EXCEPT
                                    !.op = "GET /places"]

\* getPopularItineraries called with the query's limit
GetPopularItineraries ==
    \E limit \in 1..MaxLimit : \E result \in findPopular(limit) :
        /\ last' = [Outcome("getPopularItineraries", "ok", "") EXCEPT
                        !.result = result, !.request = [limit |-> limit]]
        /\ UNCHANGED <<users, favorites, loaded, now, session, itineraries, likeToggles, placeCache, provider>>

-----------------------------------------------------------------------------
(* OpenAI gateway: chat replies *)

MaxLineLen == 3
MaxLines == 2

\* the characters of a reply in the model: two of the bullet characters (the
\* third, the dot, is treated as these are), the space, a letter and a digit
Chars == {"-", "*", " ", "a", "1"}
Bullets == {"-", "*"}

Lines == UNION {[1..n -> Chars] : n \in 0..MaxLineLen}

\* a reply is the sequence of its lines, what text.split('\n') gives
ChatReplies == UNION {[1..n -> Lines] : n \in 1..MaxLines}

\* the reply as one string, line breaks included
RECURSIVE JoinLines(_)
JoinLines(lines) ==
    IF Len(lines) = 1 THEN lines[1]
    ELSE lines[1] \o <<"\n">> \o JoinLines(Tail(lines))

RECURSIVE TrimStartOf(_, _)
TrimStartOf(str, white) ==
    IF str # <<>> /\ Head(str) \in white THEN TrimStartOf(Tail(str), white) ELSE str

RECURSIVE TrimEndOf(_, _)
TrimEndOf(str, white) ==
    IF str # <<>> /\ str[Len(str)] \in white
    THEN TrimEndOf(SubSeq(str, 1, Len(str) - 1), white)
    ELSE str

\* String.prototype.trim
trim(str) == TrimEndOf(TrimStartOf(str, {" ", "\n"}), {" ", "\n"})

\* JSON.parse succeeds: of the texts over Chars, those that are a number between
\* optional white space
IsJson(lines) ==
    LET body == trim(JoinLines(lines))
        digits == IF body # <<>> /\ Head(body) = "-" THEN Tail(body) ELSE body
    IN  /\ digits # <<>>
        /\ \A i \in 1..Len(digits) : digits[i] = "1"

\* line.replace(/^[\u2022\-\*]\s*/, '')
stripBullet(line) ==
    IF line # <<>> /\ Head(line) \in Bullets
    THEN TrimStartOf(Tail(line), {" "})
    ELSE line

\* OpenAIService.extractSuggestions, on the lines of the text
RECURSIVE extractSuggestions(_)
extractSuggestions(lines) ==
    IF lines = <<>> THEN <<>>
    ELSE LET line == Head(lines)
             suggestion == trim(stripBullet(line))
         IN  (IF (\E i \in 1..Len(line) : line[i] \in Bullets) /\ suggestion # <<>>
              THEN <<suggestion>> ELSE <<>>)
             \o extractSuggestions(Tail(lines))

\* OpenAIService.parseAIResponse
parseAIResponse(response) ==
    IF IsJson(response)
    THEN [type |-> "structured", data |-> trim(JoinLines(response))]
    ELSE [type |-> "text",
          data |-> [message |-> response, suggestions |-> extractSuggestions(response)]]

\* the chat completion has arrived
InitChat ==
    /\ now = 1
    /\ session = "u1"
    /\ itineraries = [id \in ItinIds |-> NoItin]
    /\ likeToggles = [id \in ItinIds |-> [u \in Users |-> 0]]
    /\ placeCache = [f \in FsqIds |-> NoPlace]
    /\ provider = [f \in FsqIds |-> 7]
    /\ loaded = [r \in Requests |-> Idle]
    /\ users = [u \in Users |-> ActiveUser]
    /\ favorites = <<>>
    /\ \E response \in ChatReplies :
        last = [Outcome("chatCompletion", "ok", "") EXCEPT !.request = response]

ParseAIResponse ==
    /\ last.op = "chatCompletion"
    /\ last' = [Outcome("parseAIResponse", "ok", "") EXCEPT
                    !.request = last.request,
                    !.result = parseAIResponse(last.request)]
    /\ UNCHANGED <<users, favorites, loaded, now, session, itineraries, likeToggles, placeCache, provider>>

SpecChat == InitChat /\ [][ParseAIResponse]_vars

-----------------------------------------------------------------------------
(* The client's PlacesContext: favorites *)

MaxFavorites == 3

\* the places the client shows are those the server formatted (formatPlace):
\* they carry id, name and category
ClientPlaces == {formatPlace(RawPlace(f, 7)) : f \in FsqIds}

\* what GET /places/favorites may resolve with: user.favorites entries, keyed
\* by placeId
ServerFavorites ==
    {[i \in 1..Len(ids) |-> [placeId |-> ids[i], name |-> CatalogName(ids[i])]] :
        ids \in ResultLists}

RECURSIVE FilterFavorites(_, _)
FilterFavorites(favs, placeId) ==
    IF favs = <<>> THEN <<>>
    ELSE IF Field(Head(favs), "placeId") # Defined(placeId)
         THEN <<Head(favs)>> \o FilterFavorites(Tail(favs), placeId)
         ELSE FilterFavorites(Tail(favs), placeId)

\* placesReducer, on state.favorites
placesReducer(stateFavorites, action) ==
    IF action.type = "ADD_TO_FAVORITES"
    THEN Append(stateFavorites, action.payload)
    ELSE IF action.type = "REMOVE_FROM_FAVORITES"
    THEN FilterFavorites(stateFavorites, action.payload)
    ELSE IF action.type = "SET_FAVORITES"
    THEN action.payload
    ELSE stateFavorites

isFavorite(stateFavorites, placeId) ==
    \E i \in 1..Len(stateFavorites) :
        Field(stateFavorites[i], "placeId") = Defined(placeId)

ClientOutcome(op, status, input, before) ==
    [Outcome(op, status, "") EXCEPT !.input = input, !.request = [before |-> before]]

\* addToFavorites(place): resolved is whether placesAPI.addToFavorites resolves
AddToFavorites ==
    \E place \in ClientPlaces, resolved \in BOOLEAN :
        /\ Len(favorites) < MaxFavorites
        /\ IF resolved
           THEN /\ favorites' = placesReducer(favorites,
                                    [type |-> "ADD_TO_FAVORITES", payload |-> place])
                /\ last' = ClientOutcome("addToFavorites", "ok", place.id, favorites)
           ELSE /\ favorites' = favorites
                /\ last' = ClientOutcome("addToFavorites", "error", place.id, favorites)
        /\ UNCHANGED <<users, loaded, now, session, itineraries, likeToggles, placeCache,
                       provider>>

\* removeFromFavorites(placeId)
RemoveFromFavorites ==
    \E placeId \in FsqIds, resolved \in BOOLEAN :
        /\ IF resolved
           THEN /\ favorites' = placesReducer(favorites,
                                    [type |-> "REMOVE_FROM_FAVORITES", payload |-> placeId])
                /\ last' = ClientOutcome("removeFromFavorites", "ok", placeId, favorites)
           ELSE /\ favorites' = favorites
                /\ last' = ClientOutcome("removeFromFavorites", "error", placeId,
                                         favorites)
        /\ UNCHANGED <<users, loaded, now, session, itineraries, likeToggles, placeCache,
                       provider>>

\* getFavorites(): a failed request leaves the state as it is
GetFavorites ==
    \E resolved \in BOOLEAN, response \in ServerFavorites :
        /\ resolved \/ response = <<>>
        /\ IF resolved
           THEN /\ favorites' = placesReducer(favorites,
                                    [type |-> "SET_FAVORITES", payload |-> response])
                /\ last' = ClientOutcome("getFavorites", "ok", "", favorites)
           ELSE /\ favorites' = favorites
                /\ last' = ClientOutcome("getFavorites", "error", "", favorites)
        /\ UNCHANGED <<users, loaded, now, session, itineraries, likeToggles, placeCache,
                       provider>>

-----------------------------------------------------------------------------
(* The auth middleware *)

\* what the Authorization header may carry: nothing, or a token for a user id
\* that jwt.verify accepts, rejects (JsonWebTokenError) or finds expired
\* (TokenExpiredError)
Tokens ==
    {[kind |-> "none", userId |-> ""]}
    \cup {[kind |-> k, userId |-> u] : k \in {"valid", "malformed", "expired"}, u \in Users}

Rejected(status) ==
    [status |-> status, next |-> FALSE, responded |-> TRUE, user |-> Undefined]

\* mutant: a deactivated account is let in
authSkipsActive(token, dbOk) ==
    IF token.kind = "none" THEN Rejected("unauthorized")
    ELSE IF token.kind \in {"malformed", "expired"} THEN Rejected("unauthorized")
    ELSE IF ~dbOk THEN Rejected("serverError")
    ELSE IF ~users[token.userId].exists THEN Rejected("unauthorized")
    ELSE [status |-> "ok", next |-> TRUE, responded |-> FALSE,
          user |-> Defined(token.userId)]

\* auth(req, res, next): dbOk is whether User.findById returns; any error that
\* is no JsonWebTokenError and no TokenExpiredError is answered with 500
auth(token, dbOk) ==
    IF token.kind = "none" THEN Rejected("unauthorized")
    ELSE IF token.kind \in {"malformed", "expired"} THEN Rejected("unauthorized")
    ELSE IF ~dbOk THEN Rejected("serverError")
    ELSE IF ~users[token.userId].exists THEN Rejected("unauthorized")
    ELSE IF ~users[token.userId].isActive THEN Rejected("unauthorized")
    ELSE [status |-> "ok", next |-> TRUE, responded |-> FALSE,
          user |-> Defined(token.userId)]

\* a request reaches a protected route
Auth ==
    \E token \in Tokens, dbOk \in BOOLEAN :
        LET answer == auth(token, dbOk)
        IN  /\ session' = IF answer.next THEN token.userId ELSE session
            /\ last' = [Outcome("auth", answer.status, "") EXCEPT
                            !.request = [token |-> token, dbOk |-> dbOk],
                            !.result = answer]
            /\ UNCHANGED <<users, favorites, loaded, now, itineraries, likeToggles,
                           placeCache, provider>>

\* an account is deactivated, reactivated or removed in the store (environment:
\* no handler of the server does it)
AccountUpdate ==
    \E u \in Users,
       account \in {ActiveUser, [exists |-> TRUE, isActive |-> FALSE], NoUser} :
        /\ users[u] # account
        /\ users' = [users EXCEPT ![u] = account]
        /\ last' = Outcome("accountUpdate", "ok", "")
        /\ UNCHANGED <<favorites, loaded, now, session, itineraries, likeToggles,
                       placeCache, provider>>

-----------------------------------------------------------------------------
(* Specifications *)

Init ==
    /\ now = 1
    /\ session = "u1"
    /\ itineraries = [id \in ItinIds |-> NoItin]
    /\ likeToggles = [id \in ItinIds |-> [u \in Users |-> 0]]
    /\ placeCache = [f \in FsqIds |-> NoPlace]
    /\ provider = [f \in FsqIds |-> 7]
    /\ loaded = [r \in Requests |-> Idle]
    /\ users = [u \in Users |-> ActiveUser]
    /\ favorites = <<>>
    /\ last = Outcome("init", "ok", "")

\* the store after u1's first generation, from a skeleton without places (the
\* reply may or may not give a totalDuration)
InitItinerary ==
    /\ now = 1
    /\ session = "u1"
    /\ \E total \in {Unset, 100} :
        itineraries =
            [id \in ItinIds |->
                IF id = "i1"
                THEN NewItinerary("u1", [title |-> "t1", places |-> <<>>,
                                         totalDuration |-> total], <<>>)
                ELSE NoItin]
    /\ likeToggles = [id \in ItinIds |-> [u \in Users |-> 0]]
    /\ placeCache = [f \in FsqIds |-> NoPlace]
    /\ provider = [f \in FsqIds |-> 7]
    /\ loaded = [r \in Requests |-> Idle]
    /\ users = [u \in Users |-> ActiveUser]
    /\ favorites = <<>>
    /\ last = [Outcome("generateItinerary", "ok", "i1") EXCEPT
                    !.input = "object", !.llmCalls = 1]

\* the whole itinerary surface on one itinerary, at one instant, by its owner
Next ==
    \/ UpdateItinerary
    \/ MarkPlaceVisited
    \/ AddPlaceToItinerary
    \/ RemovePlaceFromItinerary
    \/ ToggleLike
    \/ ShareItinerary

Spec == InitItinerary /\ [][Next]_vars

NextOrder == AddPlaceToItinerary \/ RemovePlaceFromItinerary

SpecOrder == InitItinerary /\ [][NextOrder]_vars

NextTotals == AddPlaceToItinerary \/ RemovePlaceFromItinerary \/ UpdateItinerary

SpecTotals == InitItinerary /\ [][NextTotals]_vars

NextVisit ==
    \/ MarkPlaceVisited
    \/ AddPlaceToItinerary
    \/ RemovePlaceFromItinerary
    \/ Tick

SpecVisit == InitItinerary /\ [][NextVisit]_vars

NextLikes == ToggleLike \/ SwitchUser \/ Tick

SpecLikes == InitItinerary /\ [][NextLikes]_vars

NextGen == GenerateItinerary \/ DeleteItinerary \/ SwitchUser

SpecGen == Init /\ [][NextGen]_vars

\* addPlace requests of the owner that run side by side
NextConcurrent == AddPlaceLoad \/ AddPlaceSave

SpecConcurrent == InitItinerary /\ [][NextConcurrent]_vars

\* the owner's routes, called by the owner and by another user
NextOwner ==
    \/ UpdateItinerary
    \/ DeleteItinerary
    \/ AddPlaceToItinerary
    \/ RemovePlaceFromItinerary
    \/ MarkPlaceVisited
    \/ SwitchUser

SpecOwner == InitItinerary /\ [][NextOwner]_vars

\* two users' itineraries, each public or private, without places
InitShared ==
    /\ now = 1
    /\ session = "u1"
    /\ \E public \in [ItinIds -> BOOLEAN] :
        itineraries =
            [id \in ItinIds |->
                [NewItinerary(IF id = "i1" THEN "u1" ELSE "u2",
                              [title |-> "t1", places |-> <<>>, totalDuration |-> Unset],
                              <<>>)
                 EXCEPT !.isPublic = public[id]]]
    /\ likeToggles = [id \in ItinIds |-> [u \in Users |-> 0]]
    /\ placeCache = [f \in FsqIds |-> NoPlace]
    /\ provider = [f \in FsqIds |-> 7]
    /\ loaded = [r \in Requests |-> Idle]
    /\ users = [u \in Users |-> ActiveUser]
    /\ favorites = <<>>
    /\ last = Outcome("init", "ok", "")

NextSocial ==
    \/ ToggleLike
    \/ ShareItinerary
    \/ SwitchUser
    \/ HttpGet
    \/ GetPopularItineraries

SpecSocial == InitShared /\ [][NextSocial]_vars

NextGateway ==
    \/ SearchPlaces
    \/ GetTrendingPlaces
    \/ GetPlaceDetails
    \/ ProviderUpdate
    \/ Tick

SpecGateway == Init /\ [][NextGateway]_vars

\* the places routes as a client reaches them
NextPlaces ==
    \/ SearchPlaces
    \/ PlacesGet
    \/ ProviderUpdate
    \/ Tick

SpecPlaces == Init /\ [][NextPlaces]_vars

\* the client's favorites
NextFavorites ==
    \/ AddToFavorites
    \/ RemoveFromFavorites
    \/ GetFavorites

SpecFavorites == Init /\ [][NextFavorites]_vars

\* requests to protected routes while accounts change
NextAuth ==
    \/ Auth
    \/ AccountUpdate

SpecAuth == Init /\ [][NextAuth]_vars

-----------------------------------------------------------------------------
(* Claims *)

Orders(ps) == {ps[i].order : i \in 1..Len(ps)}

\* C1: from an itinerary with no places, after any sequence of addPlace and
\* removePlace calls the order indices are exactly 1..N, with no duplicates.
C1_OrderIndicesContiguous ==
    \A id \in Stored :
        LET ps == itineraries[id].places
        IN  /\ Orders(ps) = 1..Len(ps)
            /\ \A i, j \in 1..Len(ps) : i # j => ps[i].order # ps[j].order

\* a removal that left two entries behind, both added after the removed one's id
C1_Witness ==
    \E id \in Stored :
        /\ last.op = "removePlace" /\ last.input = "f1"
        /\ Len(itineraries[id].places) = 2

\* C2: right after addPlace, removePlace and a bulk replacement of places through
\* updateItinerary, totalDuration is the sum of the entries' estimatedDuration.
C2_TotalDurationIsSum ==
    \A id \in Stored :
        (/\ last.id = id /\ last.status = "ok"
         /\ \/ last.op \in {"addPlace", "removePlace"}
            \/ last.op = "updateItinerary" /\ last.input = "places")
        => itineraries[id].totalDuration = SumDurations(itineraries[id].places)

\* a bulk replacement with two entries, one of them without a duration of its own
C2_Witness ==
    \E id \in Stored :
        /\ last.op = "updateItinerary" /\ last.input = "places"
        /\ Len(itineraries[id].places) = 2
        /\ itineraries[id].totalDuration = DefaultDuration + 30

\* C3: right after any markPlaceVisited call, isCompleted is true iff the places
\* list is non-empty and every entry is visited.
C3_CompletedIffAllVisited ==
    \A id \in Stored :
        (last.op = "markPlaceVisited" /\ last.status = "ok" /\ last.id = id)
        => (itineraries[id].isCompleted
                <=> (/\ Len(itineraries[id].places) > 0
                     /\ EveryVisited(itineraries[id].places)))

\* C4: once isCompleted is true, no addPlace, removePlace, markPlaceVisited,
\* updateItinerary, toggleLike or shareItinerary call sets it back to false.
C4_CompletionOneWay ==
    [][\A id \in Stored :
            itineraries[id].isCompleted
            => (itineraries'[id].exists /\ itineraries'[id].isCompleted)]_vars

\* a completed itinerary that holds an unvisited entry after a later markVisited
C4_Witness ==
    \E id \in Stored :
        /\ itineraries[id].isCompleted
        /\ ~EveryVisited(itineraries[id].places)
        /\ last.op = "markPlaceVisited"

\* C5: completedAt is unset while isCompleted is false, is assigned by the
\* markPlaceVisited call that completes the itinerary, and is not changed by a
\* later markPlaceVisited call on the completed itinerary. (Stated of itineraries
\* that hold places, so that the completion of an empty list plays no part.)
C5_CompletedAtSetOnce ==
    [][\A id \in Stored :
        LET old == itineraries[id]
            new == itineraries'[id]
        IN  Len(old.places) > 0 =>
            /\ (~new.isCompleted) => new.completedAt = Unset
            /\ (~old.isCompleted /\ new.isCompleted)
                => (last'.op = "markPlaceVisited" /\ new.completedAt = now)
            /\ (old.isCompleted /\ last'.op = "markPlaceVisited")
                => new.completedAt = old.completedAt]_vars

Likers(likes) == {likes[i].user : i \in 1..Len(likes)}

ToggledTwice(it, u, t1, t2) == toggleLike(toggleLike(it, u, t1), u, t2).likes

\* C6 as claimed: toggleLike(u) twice in succession gives back the likes list
\* (same entries, order and timestamps), whether or not u had liked before.
C6_ToggleTwiceRestores ==
    \A id \in Stored, u \in Users, t1 \in now..MaxTime, t2 \in now..MaxTime :
        t1 <= t2 => ToggledTwice(itineraries[id], u, t1, t2) = itineraries[id].likes

\* C6 as amended: toggleLike(u) twice in succession gives back the likes list
\* when u had not liked the itinerary; when u had, the other entries are kept
\* in order and u's entry moves to the end with the time of the second call.
C6_ToggleTwiceAmended ==
    \A id \in Stored, u \in Users, t1 \in now..MaxTime, t2 \in now..MaxTime :
        t1 <= t2 =>
            LET likes == itineraries[id].likes
                twice == ToggledTwice(itineraries[id], u, t1, t2)
            IN  IF u \in Likers(likes)
                THEN twice = Append(SelectSeq(likes, LAMBDA like : like.user # u),
                                    [user |-> u, likedAt |-> t2])
                ELSE twice = likes

\* two users like the itinerary, the first of them earlier than now
C6_Witness ==
    \E id \in Stored :
        /\ last.op = "toggleLike"
        /\ Len(itineraries[id].likes) = 2
        /\ itineraries[id].likes[1].likedAt < now

\* C7: from an empty likes list, after any sequence of toggleLike calls each user
\* appears at most once, and is in the list iff it toggled an odd number of times.
C7_LikesMatchToggleParity ==
    \A id \in Stored :
        LET likes == itineraries[id].likes
        IN  /\ \A i, j \in 1..Len(likes) : i # j => likes[i].user # likes[j].user
            /\ \A u \in Users : (u \in Likers(likes)) <=> (likeToggles[id][u] = 1)

\* a user has liked, unliked and liked again while the other still likes
C7_Witness ==
    \E id \in Stored :
        /\ last.op = "toggleLike"
        /\ Len(itineraries[id].likes) = 2
        /\ itineraries[id].likes[1].likedAt < itineraries[id].likes[2].likedAt
        /\ itineraries[id].likes[1].user = "u2"

\* C8: when the model's reply to a generation request is not JSON
\* (parseItineraryResponse answers success: false), generateItinerary creates no
\* itinerary: the stored itineraries are the same before and after.
C8_UnparseableCreatesNothing ==
    [][(last'.op = "generateItinerary" /\ last'.input = "text")
        => (itineraries' = itineraries /\ last'.status = "error")]_vars

\* an unparseable reply was answered while an itinerary was stored
C8_Witness ==
    /\ last.op = "generateItinerary" /\ last.input = "text"
    /\ last.detail = "unparseable"
    /\ Stored # {}

\* C9: when the provider request of searchPlaces fails, searchPlaces raises an
\* error instead of returning an empty result, and the Place cache is unchanged.
C9_SearchFailureRaises ==
    [][(last'.op = "searchPlaces" /\ ~last'.remoteOk)
        => (last'.status = "error" /\ placeCache' = placeCache)]_vars

\* a search failed while the cache held a place
C9_Witness ==
    /\ last.op = "searchPlaces" /\ ~last.remoteOk
    /\ \E f \in FsqIds : placeCache[f].exists

\* C10: getPlaceDetails(id) returns a cached Place less than 24 hours old
\* without a remote request; otherwise it makes exactly one remote request,
\* upserts its result into the cache and returns the fresh record.
C10_CacheFirst ==
    [][last'.op = "getPlaceDetails" =>
        LET f == last'.fsqId
            cached == placeCache[f]
            fresh == RawPlace(f, provider[f])
        IN  IF cached.exists /\ (now - cached.lastUpdated) * HoursPerTick < MaxAgeHours
            THEN /\ last'.remoteCalls = 0
                 /\ last'.status = "ok"
                 /\ last'.result = formatPlace(cached)
                 /\ placeCache' = placeCache
            ELSE /\ last'.remoteCalls = 1
                 /\ last'.remoteOk =>
                        /\ last'.status = "ok"
                        /\ last'.result = formatPlace(fresh)
                        /\ last'.writeOk =>
                            /\ placeCache'[f].exists
                            /\ placeCache'[f].name = fresh.name
                            /\ placeCache'[f].rating = fresh.rating
                 /\ ~last'.remoteOk => last'.status = "error"]_vars

\* a record that had gone stale was fetched again after the provider revised it
C10_Witness ==
    /\ last.op = "getPlaceDetails" /\ last.remoteCalls = 1 /\ last.status = "ok"
    /\ placeCache[last.fsqId].exists
    /\ (now - placeCache[last.fsqId].lastUpdated) * HoursPerTick >= MaxAgeHours
    /\ last.result.rating = 9

\* a cached record that is still valid was served though the provider has revised it
C10_WitnessHit ==
    /\ last.op = "getPlaceDetails" /\ last.remoteCalls = 0
    /\ last.result.rating # provider[last.fsqId]

\* the places a handler's step upserted: the one a detail call fetched, or those
\* a search returned, when the provider answered and the store took the write
Upserted(outcome) ==
    IF outcome.remoteCalls = 1 /\ outcome.remoteOk /\ outcome.writeOk
    THEN IF outcome.op = "getPlaceDetails" THEN {outcome.fsqId}
         ELSE IF outcome.op \in {"searchPlaces", "getTrendingPlaces"}
         THEN {outcome.result[i].id : i \in 1..Len(outcome.result)}
         ELSE {}
    ELSE {}

\* C11: every cache upsert refreshes the staleness timestamp: after cachePlace
\* wrote a record, inserting or replacing it, its lastUpdated is the time of
\* that upsert, so that the record is valid for the next getPlaceDetails call.
C11_UpsertRefreshesTimestamp ==
    [][\A f \in Upserted(last') :
            /\ placeCache'[f].exists
            /\ placeCache'[f].lastUpdated = now
            /\ isCacheValid(placeCache'[f].lastUpdated, now)]_vars

\* the category label of a provider result: its first category, as cachePlace
\* stores it
PrimaryCategory(raw) ==
    IF Len(raw.categories) > 0 THEN raw.categories[1] ELSE UnknownCategory

\* the matching test of generation: the result's name contains the stub's name,
\* or its category contains the stub's category, letter case aside
Satisfies(raw, stub) ==
    \/ includes(toLowerCase(raw.name), toLowerCase(stub.name))
    \/ includes(toLowerCase(PrimaryCategory(raw)), toLowerCase(stub.category))

\* the position of the first result that satisfies the test, 0 when none does
FirstSatisfying(results, stub) ==
    IF \E k \in 1..Len(results) : Satisfies(results[k], stub)
    THEN CHOOSE k \in 1..Len(results) :
            /\ Satisfies(results[k], stub)
            /\ \A j \in 1..(k - 1) : ~Satisfies(results[j], stub)
    ELSE 0

IsPlaceholderFor(entry, stub, index) ==
    /\ entry.placeId = Placeholder(index)
    /\ entry.name = stub.name
    /\ entry.category = stub.category

\* C12: a generated itinerary has exactly one places entry per stub of the
\* skeleton, the i-th entry is the i-th stub's (its order is i, its duration the
\* stub's, it is a provider place or the stub's placeholder), and a stub whose
\* search fails or matches nothing yields the entry 'placeholder-<index>' with
\* the stub's own name and category.
C12_OneEntryPerStub ==
    /\ (last.op = "generateItinerary" /\ last.status = "ok") =>
            LET ps == itineraries[last.id].places
                stubs == last.result
            IN  /\ Len(ps) = Len(stubs)
                /\ \A i \in 1..Len(ps) :
                        /\ ps[i].order = i
                        /\ ps[i].estimatedDuration =
                                IF stubs[i].estimatedDuration # Unset
                                THEN stubs[i].estimatedDuration ELSE DefaultDuration
                        /\ \/ ps[i].placeId \in FsqIds
                           \/ IsPlaceholderFor(ps[i], stubs[i], i - 1)
    /\ \A stub \in Stubs, index \in 0..(MaxStubs - 1), search \in SearchOutcomes :
            (\/ ~search.remoteOk
             \/ FirstSatisfying(ProviderResults(search.ids), stub) = 0)
            => /\ IsPlaceholderFor(ResolveStub(stub, index, search), stub, index)
               /\ ResolveStub(stub, index, search).order = index + 1

\* a generated itinerary whose first stub was resolved and whose second was not
C12_Witness ==
    /\ last.op = "generateItinerary" /\ last.status = "ok"
    /\ Len(itineraries[last.id].places) = 2
    /\ itineraries[last.id].places[1].placeId = "f1"
    /\ itineraries[last.id].places[2].placeId = Placeholder(1)
    /\ itineraries[last.id].places[2].name = <<"z", "o", "o">>

\* C13: for each stub, generation chooses the first search result, in the
\* provider's order, whose name contains the stub's name or whose category
\* contains the stub's category (letter case aside), and uses a placeholder only
\* when no result of the list satisfies that test.
C13_FirstMatchWins ==
    \A stub \in Stubs, index \in 0..(MaxStubs - 1), search \in SearchOutcomes :
        search.remoteOk =>
            LET results == ProviderResults(search.ids)
                k == FirstSatisfying(results, stub)
            IN  ResolveStub(stub, index, search).placeId =
                    IF k = 0 THEN Placeholder(index) ELSE results[k].fsq_id

\* C14: generateItinerary searches at the request's location if it gives one,
\* else at the user's stored location, and answers a request without location
\* by a user who never stored one with 400 (missing location), without calling
\* the LLM and without creating an itinerary.
C14_MissingLocationRejected ==
    [][(last'.op = "generateItinerary" /\ last'.detail # "prompt") =>
        LET request == last'.request
        IN  IF request.location # ""
            THEN request.searchLocation = request.location
            ELSE IF HasStoredLocation(session)
            THEN request.searchLocation = StoredLocation(session)
            ELSE /\ last'.status = "badRequest"
                 /\ last'.detail = "location"
                 /\ last'.llmCalls = 0
                 /\ itineraries' = itineraries]_vars

\* C15: GET /itineraries/popular and GET /itineraries/location are public: a
\* request to either path without a bearer token is answered by
\* getPopularItineraries / getItinerariesByLocation, not by the authenticated
\* '/:id' route registered before them.
C15_PublicRoutesReachable ==
    (last.op = "GET" /\ ~last.request.hasToken) =>
        /\ last.request.path = <<"popular">> => last.detail = "getPopularItineraries"
        /\ last.request.path = <<"location">> =>
                last.detail = "getItinerariesByLocation"

\* C16: any authenticated user may affect likes and shares: for a stored
\* itinerary of another user, POST /:id/like and POST /:id/share both succeed
\* and change the itinerary.
C16_AnyUserLikesAndShares ==
    [][\A id \in Stored :
        (/\ last'.op \in {"toggleLike", "shareItinerary"}
         /\ last'.id = id
         /\ itineraries[id].user # session)
        => /\ last'.status = "ok"
           /\ itineraries'[id] # itineraries[id]]_vars

\* C19: findPopular(limit) returns at most limit itineraries, all of them
\* public, by descending number of likes and, among itineraries with as many
\* likes, by descending share counter.
C19_PopularOrder ==
    last.op = "getPopularItineraries" =>
        LET result == last.result
        IN  /\ Len(result) <= last.request.limit
            /\ \A i \in 1..Len(result) : itineraries[result[i]].isPublic
            /\ \A i, j \in 1..Len(result) :
                    i < j =>
                        LET a == itineraries[result[i]]
                            b == itineraries[result[j]]
                        IN  \/ Len(a.likes) > Len(b.likes)
                            \/ Len(a.likes) = Len(b.likes) /\ a.shares >= b.shares

\* C17: title, description, visibility and places of an itinerary are changed
\* by its owner only: to a user who is not the owner, updateItinerary,
\* deleteItinerary, addPlaceToItinerary, removePlaceFromItinerary and
\* markPlaceVisited each answer 'not found' and leave the itinerary as it is,
\* public or private.
C17_OwnerOnlyMutation ==
    [][\A id \in Stored :
        (/\ last'.op \in {"updateItinerary", "deleteItinerary", "addPlace",
                          "removePlace", "markPlaceVisited"}
         /\ last'.id = id
         /\ itineraries[id].user # session)
        => /\ last'.status = "notFound"
           /\ itineraries' = itineraries]_vars

\* another user was refused the deletion of a public itinerary that holds a place
C17_Witness ==
    /\ last.op = "deleteItinerary" /\ last.status = "notFound"
    /\ last.id \in Stored
    /\ itineraries[last.id].user # session
    /\ itineraries[last.id].isPublic
    /\ Len(itineraries[last.id].places) > 0

\* C18: the popularity stored on a Place record is always
\* 0.4*checkins + 0.3*tips + 0.2*photos + 0.1*rating of the record's own stored
\* counts and rating (in tenths: 4, 3, 2, 1), also right after a search or a
\* detail call created or refreshed the record.
C18_PopularityIsFormula ==
    \A f \in FsqIds :
        placeCache[f].exists =>
            placeCache[f].popularity = updatePopularity(placeCache[f]).popularity

Unordered(ps) == [i \in 1..Len(ps) |-> [ps[i] EXCEPT !.order = 0]]

C20_WitnessRemoved ==
    \E id \in Stored :
        /\ last.op = "removePlace" /\ last.input = "f2" /\ last.id = id
        /\ Len(itineraries[id].places) = 2
        /\ itineraries[id].totalDuration = DefaultDuration + 30

\* C21: markPlaceVisited with a placeId that no entry has is a no-op: it raises
\* no error and leaves every field of the itinerary (places, visited flags,
\* ratings, isCompleted, completedAt) as it was, whatever the state before,
\* an empty places list included.
C21_MarkAbsentIsNoOp ==
    [][\A id \in Stored :
        (/\ last'.op = "markPlaceVisited" /\ last'.id = id
         /\ itineraries[id].user = session
         /\ \A i \in 1..Len(itineraries[id].places) :
                itineraries[id].places[i].placeId # last'.input)
        => /\ last'.status = "ok"
           /\ itineraries'[id] = itineraries[id]]_vars

\* C22: a failure of the Place store while cachePlace / cachePlaces write never
\* fails the surrounding read: when the provider request succeeds, searchPlaces,
\* getTrendingPlaces and getPlaceDetails return the provider's results even if
\* every cache write fails (and the cache is then as it was).
C22_CacheWriteFailureSwallowed ==
    [][(/\ last'.op \in {"searchPlaces", "getTrendingPlaces", "getPlaceDetails"}
        /\ last'.remoteCalls = 1 /\ last'.remoteOk /\ ~last'.writeOk)
        => /\ last'.status = "ok"
           /\ placeCache' = placeCache
           /\ IF last'.op = "getPlaceDetails"
              THEN last'.result =
                    formatPlace(RawPlace(last'.fsqId, provider[last'.fsqId]))
              ELSE \A i \in 1..Len(last'.result) :
                    last'.result[i] =
                        formatPlace(RawPlace(last'.result[i].id,
                                             provider[last'.result[i].id]))]_vars

\* a search returned two places that the failing store could not take
C22_Witness ==
    /\ last.op = "searchPlaces" /\ last.status = "ok" /\ ~last.writeOk
    /\ Len(last.result) = 2
    /\ \A i \in 1..2 : ~placeCache[last.result[i].id].exists

\* a detail call returned the fresh record though the stale one could not be replaced
C22_WitnessDetails ==
    /\ last.op = "getPlaceDetails" /\ last.status = "ok" /\ ~last.writeOk
    /\ placeCache[last.fsqId].exists
    /\ last.result.rating # placeCache[last.fsqId].rating

\* the suggestions the claim describes: of the lines that begin with a bullet
\* character, the non-empty contents, in the order of the lines
RECURSIVE BulletLineContents(_)
BulletLineContents(lines) ==
    IF lines = <<>> THEN <<>>
    ELSE LET line == Head(lines)
             content == IF line # <<>> THEN trim(Tail(line)) ELSE <<>>
         IN  (IF line # <<>> /\ Head(line) \in Bullets /\ content # <<>>
              THEN <<content>> ELSE <<>>)
             \o BulletLineContents(Tail(lines))

\* C23: when the chat reply is not valid JSON, parseAIResponse returns a text
\* response whose suggestions are exactly the non-empty contents of the lines
\* that begin with a bullet character, in their order; a line that only
\* contains such a character elsewhere is no suggestion.
C23_SuggestionsAreBulletLines ==
    (last.op = "parseAIResponse" /\ ~IsJson(last.request)) =>
        /\ last.result.type = "text"
        /\ last.result.data.message = last.request
        /\ last.result.data.suggestions = BulletLineContents(last.request)

C25_TotalInvariantAlways ==
    \A id \in Stored :
        itineraries[id].totalDuration = SumDurations(itineraries[id].places)

\* C26: when two addPlace requests for one itinerary interleave (each loads the
\* itinerary before the other saves), after both have completed the stored
\* itinerary holds both added places, their order indices are distinct and the
\* indices are exactly 1..N. Stated of the save that completes the second one:
\* the copy it saves was read before the other request's save.
C26_ConcurrentAddsKeepOrder ==
    [][\A r \in Requests :
        (/\ loaded[r].busy /\ ~loaded'[r].busy
         /\ loaded[r].doc.places # itineraries[loaded[r].id].places)
        => LET old == itineraries[loaded[r].id].places
               new == itineraries'[loaded[r].id].places
           IN  /\ Len(new) = Len(old) + 1
               /\ SubSeq(new, 1, Len(old)) = old
               /\ new[Len(new)].placeId = loaded[r].placeData.placeId
               /\ \A i, j \in 1..Len(new) : i # j => new[i].order # new[j].order
               /\ Orders(new) = 1..Len(new)]_vars

\* C27: the GET /places/:id handler never serves a cached Place record that is
\* 24 hours old or older without fetching it again from the provider: a stale
\* record is treated like a miss and refreshed.
C27_DetailsNeverStale ==
    [][last'.op = "GET /places/:id" =>
        LET cached == placeCache[last'.fsqId]
        IN  (cached.exists /\ (now - cached.lastUpdated) * HoursPerTick >= MaxAgeHours)
            => /\ last'.remoteCalls = 1
               /\ last'.remoteOk =>
                    last'.result = formatPlace(RawPlace(last'.fsqId,
                                                        provider[last'.fsqId]))]_vars

\* C28: GET requests to /places/trending, /places/nearby, /places/favorites and
\* /places/visited are each dispatched to their own handler (getTrendingPlaces,
\* getNearbyPlaces, getFavorites, getVisitedPlaces) and never to the '/:id'
\* place-details handler registered before them (a handler's own middleware,
\* its validation or its authentication, may answer in its place).
C28_OwnHandlers ==
    last.op = "GET /places" =>
        /\ last.request.path \in {<<"trending">>, <<"nearby">>, <<"favorites">>,
                                  <<"visited">>}
            => last.detail # "getPlaceDetails"
        /\ last.request.path = <<"trending">> =>
                last.detail \in {"getTrendingPlaces", "validateRequest"}
        /\ last.request.path = <<"nearby">> =>
                last.detail \in {"getNearbyPlaces", "validateRequest"}
        /\ last.request.path = <<"favorites">> =>
                last.detail \in {"getFavorites", "auth"}
        /\ last.request.path = <<"visited">> =>
                last.detail \in {"getVisitedPlaces", "auth"}

\* C29: in the client's PlacesContext, after a successful addToFavorites(place)
\* isFavorite(place.id) is true, and after a successful
\* removeFromFavorites(place.id) that follows it isFavorite(place.id) is false
\* and the favorites list has the content it had before the add.
C29_FavoritesRoundTrip ==
    [][/\ (last'.op = "addToFavorites" /\ last'.status = "ok")
            => isFavorite(favorites', last'.input)
       /\ (/\ last.op = "addToFavorites" /\ last.status = "ok"
           /\ last'.op = "removeFromFavorites" /\ last'.status = "ok"
           /\ last'.input = last.input)
            => /\ ~isFavorite(favorites', last'.input)
               /\ favorites' = last.request.before]_vars

\* C30: for every request through the auth middleware exactly one of two
\* things happens: next() is called with req.user set, only when the token
\* verifies and resolves to an existing user with isActive = true; or an error
\* response (401, or 500 on an unexpected failure) is sent and next() is never
\* called.
C30_AuthGate ==
    last.op = "auth" =>
        LET answer == last.result
            token == last.request.token
        IN  /\ answer.next # answer.responded
            /\ answer.next =>
                /\ token.kind = "valid"
                /\ users[token.userId].exists
                /\ users[token.userId].isActive
                /\ answer.user = Defined(token.userId)
                /\ session = token.userId
            /\ answer.responded =>
                /\ last.status \in {"unauthorized", "serverError"}
                /\ answer.user = Undefined
                /\ last.status = "serverError" => token.kind = "valid"

\* a request with a verified token of an active user was passed on, after
\* another account had been deactivated
C30_Witness ==
    /\ last.op = "auth" /\ last.result.next
    /\ \E u \in Users : users[u].exists /\ ~users[u].isActive

\* a verified token of a deactivated account was turned away
C30_WitnessDeactivated ==
    /\ last.op = "auth" /\ last.result.responded
    /\ last.request.token.kind = "valid" /\ last.request.dbOk
    /\ users[last.request.token.userId].exists
    /\ ~users[last.request.token.userId].isActive

====
